---- MODULE Spec2Model ----
(***************************************************************************)
(* Model of pkg/requests/examples.go (stripe-cli): the webhook test-event  *)
(* triggers of Examples, ResendEvent and WebhookEndpointsList.             *)
(*                                                                         *)
(* Representation.                                                         *)
(*  - A Go string that the code assembles with fmt.Sprintf is kept as the  *)
(*    sequence of its fragments (the literal pieces of the format and the  *)
(*    rendering of each %s argument); Flat gives the string itself.        *)
(*  - A response body ([]byte) is kept as its syntax: empty, not JSON, or  *)
(*    the JSON value it spells.                                            *)
(*  - A Go value of type interface{} is [t |-> type, v |-> value].         *)
(*  - An invocation is a call of one exported method by the caller.  The   *)
(*    method is a deterministic function of the outcomes MakeRequest has   *)
(*    returned to it so far: it either issues its next MakeRequest call or *)
(*    returns.  Each method is an operator of that history (rs).           *)
(***************************************************************************)
EXTENDS Integers, Sequences, FiniteSets, TLC

VARIABLES ex, inv

vars == <<ex, inv>>

----------------------------------------------------------------------------
(* Constants of the source *)

validToken == "tok_visa"
declinedToken == "tok_chargeDeclined"
disputeToken == "tok_createDisputeInquiry"
chargeFailedToken == "tok_chargeCustomerFail"

MethodGet == "GET"
MethodPost == "POST"
MethodDelete == "DELETE"

----------------------------------------------------------------------------
(* Strings *)

RECURSIVE Flat(_)
Flat(s) ==
  IF Len(s) = 0 THEN ""
  ELSE IF Len(s) = 1 THEN s[1]
  ELSE LET h == Len(s) \div 2
       IN Flat(SubSeq(s, 1, h)) \o Flat(SubSeq(s, h + 1, Len(s)))

(* Go values held in an interface{} *)
GoNil == [t |-> "nil", v |-> ""]
GoString(s) == [t |-> "string", v |-> s]
GoFloat64(s) == [t |-> "float64", v |-> s]

(* The %s verb of fmt: a string prints as itself, a nil interface as       *)
(* %!s(<nil>), any other operand as %!s(type=value).                       *)
FmtS(x) ==
  CASE x.t = "string" -> x.v
    [] x.t = "nil" -> "%!s(<nil>)"
    [] OTHER -> "%!s(" \o x.t \o "=" \o x.v \o ")"

(* fmt.Sprintf(format, args...): format is the sequence of the literal     *)
(* pieces of the format string with each verb as the piece "%s".           *)
RECURSIVE Sprintf(_, _)
Sprintf(format, args) ==
  IF format = <<>> THEN <<>>
  ELSE IF Head(format) = "%s"
       THEN <<FmtS(Head(args))>> \o Sprintf(Tail(format), Tail(args))
       ELSE <<Head(format)>> \o Sprintf(Tail(format), args)

----------------------------------------------------------------------------
(* Errors: [kind, msg], msg the fragments of the message *)

NoErr == [kind |-> "nil", msg |-> <<>>]
ErrorsNew(kind, text) == [kind |-> kind, msg |-> <<text>>]
Errorf(kind, format, args) == [kind |-> kind, msg |-> Sprintf(format, args)]

(* errors of encoding/json *)
SyntaxError == ErrorsNew("json.SyntaxError", "unexpected end of JSON input")
InvalidCharError == ErrorsNew("json.SyntaxError", "invalid character '<' looking for beginning of value")
UnmarshalTypeError == ErrorsNew("json.UnmarshalTypeError", "json: cannot unmarshal value into Go value")

----------------------------------------------------------------------------
(* Response bodies and JSON values *)

JNull == [t |-> "null", v |-> ""]
JString(s) == [t |-> "string", v |-> s]
JNumber(s) == [t |-> "number", v |-> s]
JArray(es) == [t |-> "array", v |-> es]
JObject(f) == [t |-> "object", v |-> f]

EmptyBody == [syn |-> "empty", val |-> JNull]
InvalidBody == [syn |-> "invalid", val |-> JNull]
JSONBody(j) == [syn |-> "json", val |-> j]

(* JSON value -> the Go value json.Unmarshal stores in an interface{} *)
GoValue(j) ==
  CASE j.t = "string" -> GoString(j.v)
    [] j.t = "number" -> GoFloat64(j.v)
    [] j.t = "null" -> GoNil

(* map[string]interface{}: nil or a finite function *)
NilMap == [isNil |-> TRUE, kv |-> [k \in {} |-> GoNil]]
GoMap(f) == [isNil |-> FALSE, kv |-> f]

(* m[key] and v, ok := m[key] *)
Index(m, key) == IF key \in DOMAIN m.kv THEN m.kv[key] ELSE GoNil
(* variant of IndexOk whose ok is not the presence of the key *)
IndexOkAlways(m, key) == [v |-> Index(m, key), ok |-> TRUE]

IndexOk(m, key) == [v |-> Index(m, key), ok |-> key \in DOMAIN m.kv]

(* json.Unmarshal(response, &result) with result a nil map[string]interface{} *)
UnmarshalMap(body) ==
  CASE body.syn = "empty" -> [result |-> NilMap, err |-> SyntaxError]
    [] body.syn = "invalid" -> [result |-> NilMap, err |-> InvalidCharError]
    [] body.val.t = "null" -> [result |-> NilMap, err |-> NoErr]
    [] body.val.t = "object" ->
         [result |-> GoMap([k \in DOMAIN body.val.v |-> GoValue(body.val.v[k])]),
          err |-> NoErr]
    [] OTHER -> [result |-> NilMap, err |-> UnmarshalTypeError]

(* variant of parseResponse that drops the error of json.Unmarshal *)
parseResponseSwallow(response) ==
  [m |-> UnmarshalMap(response).result, err |-> NoErr]

parseResponse(response) ==
  LET u == UnmarshalMap(response)
  IN IF u.err # NoErr THEN [m |-> NilMap, err |-> u.err]
     ELSE [m |-> u.result, err |-> NoErr]

----------------------------------------------------------------------------
(* Examples and the requests it builds *)

(* the Examples values the caller may construct *)
Configurations ==
  {[Profile |-> "default", APIBaseURL |-> "https://api.stripe.com",
    APIVersion |-> "", APIKey |-> "sk_test_123"],
   [Profile |-> "staging", APIBaseURL |-> "http://localhost:12111",
    APIVersion |-> "2019-03-14", APIKey |-> "rk_test_456"]}

(* A literal string, and a literal []string of one-piece strings *)
Lit(s) == <<s>>

(* ex.buildRequest(method, data): the Base and the RequestParameters *)
(* variant of buildRequest that leaves SuppressOutput at its zero value *)
buildRequestVerbose(method, data) ==
  [base |-> [Profile |-> ex.Profile,
             Method |-> method,
             SuppressOutput |-> FALSE,
             APIBaseURL |-> ex.APIBaseURL],
   params |-> [data |-> data, version |-> ex.APIVersion]]

(* variant of buildRequest that does not set the version of the parameters *)
buildRequestNoVersion(method, data) ==
  [base |-> [Profile |-> ex.Profile,
             Method |-> method,
             SuppressOutput |-> TRUE,
             APIBaseURL |-> ex.APIBaseURL],
   params |-> [data |-> data, version |-> ""]]

buildRequest(method, data) ==
  [base |-> [Profile |-> ex.Profile,
             Method |-> method,
             SuppressOutput |-> TRUE,
             APIBaseURL |-> ex.APIBaseURL],
   params |-> [data |-> data, version |-> ex.APIVersion]]

(* What a method does next: issue req.MakeRequest(...) or return *)
Call(base, apiKey, endpoint, params, flag) ==
  [kind |-> "call",
   call |-> [base |-> base, apiKey |-> apiKey, endpoint |-> endpoint,
             params |-> params, flag |-> flag],
   err |-> NoErr, list |-> [Data |-> <<>>]]

Return(err) == [kind |-> "return", call |-> <<>>, err |-> err, list |-> [Data |-> <<>>]]
ReturnList(data) == [kind |-> "return", call |-> <<>>, err |-> NoErr, list |-> data]

(* performStripeRequest, first half: req.MakeRequest(ex.APIKey, endpoint, params, true) *)
performStripeRequestCall(req, endpoint, params) ==
  Call(req, ex.APIKey, endpoint, params, TRUE)

(* performStripeRequest, second half: o is what MakeRequest returned *)
(* variant of the second half that does not test err *)
performStripeRequestIgnoreErr(o) == parseResponse(o.body)

performStripeRequest(o) ==
  IF o.err # NoErr THEN [m |-> NilMap, err |-> o.err]
  ELSE parseResponse(o.body)

----------------------------------------------------------------------------
(* Charges *)

chargeCreated(token, data) ==
  LET paymentSource == Sprintf(<<"source=", "%s">>, <<GoString(token)>>)
      rp == buildRequest(MethodPost, Append(data, paymentSource))
  IN performStripeRequestCall(rp.base, Lit("/v1/charges"), rp.params)

(* variant of ChargeCaptured that reads charge["ID"] *)
ChargeCapturedWrongKey(rs) ==
  IF Len(rs) = 0
  THEN chargeCreated(validToken,
         <<Lit("amount=2000"), Lit("currency=usd"), Lit("capture=false")>>)
  ELSE LET charge == performStripeRequest(rs[1]) IN
  IF charge.err # NoErr THEN Return(charge.err)
  ELSE IF Len(rs) = 1
  THEN LET rp == buildRequest(MethodPost, <<>>)
           reqURL == Sprintf(<<"/v1/charges/", "%s", "/capture">>, <<Index(charge.m, "ID")>>)
       IN performStripeRequestCall(rp.base, reqURL, rp.params)
  ELSE Return(performStripeRequest(rs[2]).err)

ChargeCaptured(rs) ==
  IF Len(rs) = 0
  THEN chargeCreated(validToken,
         <<Lit("amount=2000"), Lit("currency=usd"), Lit("capture=false")>>)
  ELSE LET charge == performStripeRequest(rs[1]) IN
  IF charge.err # NoErr THEN Return(charge.err)
  ELSE IF Len(rs) = 1
  THEN LET rp == buildRequest(MethodPost, <<>>)
           reqURL == Sprintf(<<"/v1/charges/", "%s", "/capture">>, <<Index(charge.m, "id")>>)
       IN performStripeRequestCall(rp.base, reqURL, rp.params)
  ELSE Return(performStripeRequest(rs[2]).err)

ChargeDisputed(rs) ==
  IF Len(rs) = 0
  THEN chargeCreated(disputeToken, <<Lit("amount=2000"), Lit("currency=usd")>>)
  ELSE Return(performStripeRequest(rs[1]).err)

ChargeFailed(rs) ==
  IF Len(rs) = 0
  THEN chargeCreated(declinedToken, <<Lit("amount=2000"), Lit("currency=usd")>>)
  ELSE Return(performStripeRequest(rs[1]).err)

ChargeRefunded(rs) ==
  IF Len(rs) = 0
  THEN chargeCreated(validToken, <<Lit("amount=2000"), Lit("currency=usd")>>)
  ELSE LET charge == performStripeRequest(rs[1]) IN
  IF charge.err # NoErr THEN Return(charge.err)
  ELSE IF Len(rs) = 1
  THEN LET rp == buildRequest(MethodPost,
                   <<Sprintf(<<"charge=", "%s">>, <<Index(charge.m, "id")>>)>>)
       IN performStripeRequestCall(rp.base, Lit("/v1/refunds"), rp.params)
  ELSE Return(performStripeRequest(rs[2]).err)

ChargeSucceeded(rs) ==
  IF Len(rs) = 0
  THEN chargeCreated(validToken, <<Lit("amount=2000"), Lit("currency=usd")>>)
  ELSE Return(performStripeRequest(rs[1]).err)

----------------------------------------------------------------------------
(* Payment methods and payment intents (helpers used by several triggers) *)

paymentMethodCreated(card) ==
  LET rp == buildRequest(MethodPost,
              <<Lit("type=card"),
                Sprintf(<<"card[number]=", "%s">>, <<GoString(card)>>),
                Lit("card[exp_month]=12"),
                Lit("card[exp_year]=2020"),
                Lit("card[cvc]=123")>>)
  IN performStripeRequestCall(rp.base, Lit("/v1/payment_methods"), rp.params)

(* variant of paymentMethodCreatedWithToken built with http.MethodGet *)
paymentMethodCreatedWithTokenGet(token) ==
  LET rp == buildRequest(MethodGet,
              <<Lit("type=card"),
                Sprintf(<<"card[token]=", "%s">>, <<GoString(token)>>),
                Lit("billing_details[email]=stripe@example.com")>>)
  IN performStripeRequestCall(rp.base, Lit("/v1/payment_methods"), rp.params)

paymentMethodCreatedWithToken(token) ==
  LET rp == buildRequest(MethodPost,
              <<Lit("type=card"),
                Sprintf(<<"card[token]=", "%s">>, <<GoString(token)>>),
                Lit("billing_details[email]=stripe@example.com")>>)
  IN performStripeRequestCall(rp.base, Lit("/v1/payment_methods"), rp.params)

paymentIntentCreated(data) ==
  LET rp == buildRequest(MethodPost, data)
  IN performStripeRequestCall(rp.base, Lit("/v1/payment_intents"), rp.params)

----------------------------------------------------------------------------
(* Checkout *)

CheckoutSessionCompleted(rs) ==
  IF Len(rs) = 0
  THEN LET rp == buildRequest(MethodPost,
                   <<Lit("success_url=https://httpbin.org/post"),
                     Lit("cancel_url=https://httpbin.org/post"),
                     Lit("payment_method_types[]=card"),
                     Lit("line_items[][name]=T-shirt"),
                     Lit("line_items[][description]=Comfortable cotton t-shirt"),
                     Lit("line_items[][amount]=1500"),
                     Lit("line_items[][currency]=usd"),
                     Lit("line_items[][quantity]=2")>>)
       IN performStripeRequestCall(rp.base, Lit("/v1/checkout/sessions"), rp.params)
  ELSE LET checkoutSession == performStripeRequest(rs[1]) IN
  IF checkoutSession.err # NoErr THEN Return(checkoutSession.err)
  ELSE LET sessID == IndexOk(checkoutSession.m, "id") IN
  IF ~sessID.ok
  THEN Return(ErrorsNew("errors.errorString", "Unable to retrieve CheckoutSession ID"))
  ELSE IF Len(rs) = 1
  THEN LET rp == buildRequest(MethodGet,
                   <<Sprintf(<<"session_id=", "%s">>, <<sessID.v>>)>>)
       IN performStripeRequestCall(rp.base, Lit("/v1/payment_pages"), rp.params)
  ELSE LET paymentPage == performStripeRequest(rs[2]) IN
  IF paymentPage.err # NoErr THEN Return(paymentPage.err)
  ELSE LET paymentPageID == IndexOk(paymentPage.m, "id") IN
  IF ~paymentPageID.ok
  THEN Return(ErrorsNew("errors.errorString", "Unable to retrieve PaymentPage ID"))
  ELSE IF Len(rs) = 2
  THEN paymentMethodCreatedWithToken(validToken)
  ELSE LET paymentMethod == performStripeRequest(rs[3]) IN
  IF paymentMethod.err # NoErr THEN Return(paymentMethod.err)
  ELSE LET pmID == IndexOk(paymentMethod.m, "id") IN
  IF ~pmID.ok
  THEN Return(ErrorsNew("errors.errorString", "Unable to retrieve PaymentMethod ID"))
  ELSE IF Len(rs) = 3
  THEN LET rp == buildRequest(MethodPost,
                   <<Sprintf(<<"payment_method=", "%s">>, <<pmID.v>>)>>)
       IN performStripeRequestCall(rp.base,
            Sprintf(<<"/v1/payment_pages/", "%s", "/confirm">>, <<paymentPageID.v>>),
            rp.params)
  ELSE Return(performStripeRequest(rs[4]).err)

----------------------------------------------------------------------------
(* Customers *)

customerCreated(data) ==
  LET rp == buildRequest(MethodPost, data)
  IN performStripeRequestCall(rp.base, Lit("/v1/customers"), rp.params)

CustomerCreated(rs) ==
  IF Len(rs) = 0 THEN customerCreated(<<>>)
  ELSE Return(performStripeRequest(rs[1]).err)

CustomerUpdated(rs) ==
  IF Len(rs) = 0 THEN customerCreated(<<>>)
  ELSE LET customer == performStripeRequest(rs[1]) IN
  IF customer.err # NoErr THEN Return(customer.err)
  ELSE IF Len(rs) = 1
  THEN LET rp == buildRequest(MethodPost, <<Lit("metadata[foo]=bar")>>)
           reqURL == Sprintf(<<"/v1/customers/", "%s">>, <<Index(customer.m, "id")>>)
       IN performStripeRequestCall(rp.base, reqURL, rp.params)
  ELSE Return(performStripeRequest(rs[2]).err)

CustomerDeleted(rs) ==
  IF Len(rs) = 0 THEN customerCreated(<<>>)
  ELSE LET customer == performStripeRequest(rs[1]) IN
  IF customer.err # NoErr THEN Return(customer.err)
  ELSE IF Len(rs) = 1
  THEN LET rp == buildRequest(MethodDelete, <<>>)
           reqURL == Sprintf(<<"/v1/customers/", "%s">>, <<Index(customer.m, "id")>>)
       IN performStripeRequestCall(rp.base, reqURL, rp.params)
  ELSE Return(performStripeRequest(rs[2]).err)

CustomerSourceCreated(rs) ==
  IF Len(rs) = 0 THEN customerCreated(<<>>)
  ELSE LET customer == performStripeRequest(rs[1]) IN
  IF customer.err # NoErr THEN Return(customer.err)
  ELSE IF Len(rs) = 1
  THEN LET rp == buildRequest(MethodPost,
                   <<Sprintf(<<"source=", "%s">>, <<GoString(validToken)>>)>>)
           reqURL == Sprintf(<<"/v1/customers/", "%s", "/sources">>, <<Index(customer.m, "id")>>)
       IN performStripeRequestCall(rp.base, reqURL, rp.params)
  ELSE Return(performStripeRequest(rs[2]).err)

CustomerSourceUpdated(rs) ==
  IF Len(rs) = 0 THEN customerCreated(<<>>)
  ELSE LET customer == performStripeRequest(rs[1]) IN
  IF customer.err # NoErr THEN Return(customer.err)
  ELSE IF Len(rs) = 1
  THEN LET rp == buildRequest(MethodPost,
                   <<Sprintf(<<"source=", "%s">>, <<GoString(validToken)>>)>>)
           reqURL == Sprintf(<<"/v1/customers/", "%s", "/sources">>, <<Index(customer.m, "id")>>)
       IN performStripeRequestCall(rp.base, reqURL, rp.params)
  ELSE LET card == performStripeRequest(rs[2]) IN
  IF card.err # NoErr THEN Return(card.err)
  ELSE IF Len(rs) = 2
  THEN LET rp == buildRequest(MethodPost, <<Lit("metadata[foo]=bar")>>)
           reqURL == Sprintf(<<"/v1/customers/", "%s", "/sources/", "%s">>,
                             <<Index(customer.m, "id"), Index(card.m, "id")>>)
       IN performStripeRequestCall(rp.base, reqURL, rp.params)
  ELSE Return(performStripeRequest(rs[3]).err)

CustomerSubscriptionUpdated(rs) ==
  IF Len(rs) = 0
  THEN customerCreated(<<Sprintf(<<"source=", "%s">>, <<GoString(validToken)>>)>>)
  ELSE LET customer == performStripeRequest(rs[1]) IN
  IF customer.err # NoErr THEN Return(customer.err)
  ELSE IF Len(rs) = 1
  THEN LET rp == buildRequest(MethodPost,
                   <<Lit("currency=usd"), Lit("interval=month"),
                     Lit("amount=2000"), Lit("product[name]=myproduct")>>)
       IN performStripeRequestCall(rp.base, Lit("/v1/plans"), rp.params)
  ELSE LET plan == performStripeRequest(rs[2]) IN
  IF plan.err # NoErr THEN Return(plan.err)
  ELSE IF Len(rs) = 2
  THEN LET rp == buildRequest(MethodPost,
                   <<Sprintf(<<"items[0][plan]=", "%s">>, <<Index(plan.m, "id")>>),
                     Sprintf(<<"customer=", "%s">>, <<Index(customer.m, "id")>>)>>)
       IN performStripeRequestCall(rp.base, Lit("/v1/subscriptions"), rp.params)
  ELSE LET subscription == performStripeRequest(rs[3]) IN
  IF subscription.err # NoErr THEN Return(subscription.err)
  ELSE IF Len(rs) = 3
  THEN LET rp == buildRequest(MethodPost, <<Lit("metadata[foo]=bar")>>)
           reqURL == Sprintf(<<"/v1/subscriptions/", "%s">>, <<Index(subscription.m, "id")>>)
       IN performStripeRequestCall(rp.base, reqURL, rp.params)
  ELSE Return(performStripeRequest(rs[4]).err)

(* variant of CustomerSubscriptionDeleted whose last request is built with http.MethodPost *)
CustomerSubscriptionDeletedPost(rs) ==
  IF Len(rs) = 0
  THEN customerCreated(<<Sprintf(<<"source=", "%s">>, <<GoString(validToken)>>)>>)
  ELSE LET customer == performStripeRequest(rs[1]) IN
  IF customer.err # NoErr THEN Return(customer.err)
  ELSE IF Len(rs) = 1
  THEN LET rp == buildRequest(MethodPost,
                   <<Lit("currency=usd"), Lit("interval=month"),
                     Lit("amount=2000"), Lit("product[name]=myproduct")>>)
       IN performStripeRequestCall(rp.base, Lit("/v1/plans"), rp.params)
  ELSE LET plan == performStripeRequest(rs[2]) IN
  IF plan.err # NoErr THEN Return(plan.err)
  ELSE IF Len(rs) = 2
  THEN LET rp == buildRequest(MethodPost,
                   <<Sprintf(<<"items[0][plan]=", "%s">>, <<Index(plan.m, "id")>>),
                     Sprintf(<<"customer=", "%s">>, <<Index(customer.m, "id")>>)>>)
       IN performStripeRequestCall(rp.base, Lit("/v1/subscriptions"), rp.params)
  ELSE LET subscription == performStripeRequest(rs[3]) IN
  IF subscription.err # NoErr THEN Return(subscription.err)
  ELSE IF Len(rs) = 3
  THEN LET rp == buildRequest(MethodPost, <<>>)
           reqURL == Sprintf(<<"/v1/subscriptions/", "%s">>, <<Index(subscription.m, "id")>>)
       IN performStripeRequestCall(rp.base, reqURL, rp.params)
  ELSE Return(performStripeRequest(rs[4]).err)

(* variant of CustomerSubscriptionDeleted that does not test the err of the plan request *)
CustomerSubscriptionDeletedIgnorePlanErr(rs) ==
  IF Len(rs) = 0
  THEN customerCreated(<<Sprintf(<<"source=", "%s">>, <<GoString(validToken)>>)>>)
  ELSE LET customer == performStripeRequest(rs[1]) IN
  IF customer.err # NoErr THEN Return(customer.err)
  ELSE IF Len(rs) = 1
  THEN LET rp == buildRequest(MethodPost,
                   <<Lit("currency=usd"), Lit("interval=month"),
                     Lit("amount=2000"), Lit("product[name]=myproduct")>>)
       IN performStripeRequestCall(rp.base, Lit("/v1/plans"), rp.params)
  ELSE LET plan == performStripeRequest(rs[2]) IN
  IF Len(rs) = 2
  THEN LET rp == buildRequest(MethodPost,
                   <<Sprintf(<<"items[0][plan]=", "%s">>, <<Index(plan.m, "id")>>),
                     Sprintf(<<"customer=", "%s">>, <<Index(customer.m, "id")>>)>>)
       IN performStripeRequestCall(rp.base, Lit("/v1/subscriptions"), rp.params)
  ELSE LET subscription == performStripeRequest(rs[3]) IN
  IF subscription.err # NoErr THEN Return(subscription.err)
  ELSE IF Len(rs) = 3
  THEN LET rp == buildRequest(MethodDelete, <<>>)
           reqURL == Sprintf(<<"/v1/subscriptions/", "%s">>, <<Index(subscription.m, "id")>>)
       IN performStripeRequestCall(rp.base, reqURL, rp.params)
  ELSE Return(performStripeRequest(rs[4]).err)

CustomerSubscriptionDeleted(rs) ==
  IF Len(rs) = 0
  THEN customerCreated(<<Sprintf(<<"source=", "%s">>, <<GoString(validToken)>>)>>)
  ELSE LET customer == performStripeRequest(rs[1]) IN
  IF customer.err # NoErr THEN Return(customer.err)
  ELSE IF Len(rs) = 1
  THEN LET rp == buildRequest(MethodPost,
                   <<Lit("currency=usd"), Lit("interval=month"),
                     Lit("amount=2000"), Lit("product[name]=myproduct")>>)
       IN performStripeRequestCall(rp.base, Lit("/v1/plans"), rp.params)
  ELSE LET plan == performStripeRequest(rs[2]) IN
  IF plan.err # NoErr THEN Return(plan.err)
  ELSE IF Len(rs) = 2
  THEN LET rp == buildRequest(MethodPost,
                   <<Sprintf(<<"items[0][plan]=", "%s">>, <<Index(plan.m, "id")>>),
                     Sprintf(<<"customer=", "%s">>, <<Index(customer.m, "id")>>)>>)
       IN performStripeRequestCall(rp.base, Lit("/v1/subscriptions"), rp.params)
  ELSE LET subscription == performStripeRequest(rs[3]) IN
  IF subscription.err # NoErr THEN Return(subscription.err)
  ELSE IF Len(rs) = 3
  THEN LET rp == buildRequest(MethodDelete, <<>>)
           reqURL == Sprintf(<<"/v1/subscriptions/", "%s">>, <<Index(subscription.m, "id")>>)
       IN performStripeRequestCall(rp.base, reqURL, rp.params)
  ELSE Return(performStripeRequest(rs[4]).err)

----------------------------------------------------------------------------
(* Invoices *)

createInvoiceItem(data) ==
  LET rp == buildRequest(MethodPost, data)
  IN performStripeRequestCall(rp.base, Lit("/v1/invoiceitems"), rp.params)

invoiceCreated(data) ==
  LET rp == buildRequest(MethodPost, data)
  IN performStripeRequestCall(rp.base, Lit("/v1/invoices"), rp.params)

(* variant of InvoiceCreated that ends with return nil before looking at err *)
InvoiceCreatedNilReturn(rs) ==
  IF Len(rs) = 0 THEN customerCreated(<<>>)
  ELSE LET customer == performStripeRequest(rs[1]) IN
  IF customer.err # NoErr THEN Return(customer.err)
  ELSE IF Len(rs) = 1
  THEN createInvoiceItem(
         <<Lit("currency=usd"),
           Sprintf(<<"customer=", "%s">>, <<Index(customer.m, "id")>>),
           Lit("amount=2000")>>)
  ELSE LET item == performStripeRequest(rs[2]) IN
  IF item.err # NoErr THEN Return(item.err)
  ELSE IF Len(rs) = 2
  THEN invoiceCreated(<<Sprintf(<<"customer=", "%s">>, <<Index(customer.m, "id")>>)>>)
  ELSE Return(NoErr)

InvoiceCreated(rs) ==
  IF Len(rs) = 0 THEN customerCreated(<<>>)
  ELSE LET customer == performStripeRequest(rs[1]) IN
  IF customer.err # NoErr THEN Return(customer.err)
  ELSE IF Len(rs) = 1
  THEN createInvoiceItem(
         <<Lit("currency=usd"),
           Sprintf(<<"customer=", "%s">>, <<Index(customer.m, "id")>>),
           Lit("amount=2000")>>)
  ELSE LET item == performStripeRequest(rs[2]) IN
  IF item.err # NoErr THEN Return(item.err)
  ELSE IF Len(rs) = 2
  THEN invoiceCreated(<<Sprintf(<<"customer=", "%s">>, <<Index(customer.m, "id")>>)>>)
  ELSE LET invoice == performStripeRequest(rs[3]) IN
  IF invoice.err # NoErr THEN Return(invoice.err)
  ELSE Return(invoice.err)

(* variant of InvoiceFinalized that issues the finalize call a second time when it fails *)
InvoiceFinalizedRetry(rs) ==
  IF Len(rs) = 0 THEN customerCreated(<<>>)
  ELSE LET customer == performStripeRequest(rs[1]) IN
  IF customer.err # NoErr THEN Return(customer.err)
  ELSE IF Len(rs) = 1
  THEN createInvoiceItem(
         <<Lit("currency=usd"),
           Sprintf(<<"customer=", "%s">>, <<Index(customer.m, "id")>>),
           Lit("amount=2000")>>)
  ELSE LET item == performStripeRequest(rs[2]) IN
  IF item.err # NoErr THEN Return(item.err)
  ELSE IF Len(rs) = 2
  THEN invoiceCreated(<<Sprintf(<<"customer=", "%s">>, <<Index(customer.m, "id")>>)>>)
  ELSE LET invoice == performStripeRequest(rs[3]) IN
  IF invoice.err # NoErr THEN Return(invoice.err)
  ELSE IF Len(rs) = 3
  THEN LET rp == buildRequest(MethodPost, <<>>)
           reqURL == Sprintf(<<"/v1/invoices/", "%s", "/finalize">>, <<Index(invoice.m, "id")>>)
       IN performStripeRequestCall(rp.base, reqURL, rp.params)
  ELSE IF Len(rs) = 4 /\ performStripeRequest(rs[4]).err # NoErr
  THEN LET rp == buildRequest(MethodPost, <<>>)
           reqURL == Sprintf(<<"/v1/invoices/", "%s", "/finalize">>, <<Index(invoice.m, "id")>>)
       IN performStripeRequestCall(rp.base, reqURL, rp.params)
  ELSE Return(performStripeRequest(rs[Len(rs)]).err)

InvoiceFinalized(rs) ==
  IF Len(rs) = 0 THEN customerCreated(<<>>)
  ELSE LET customer == performStripeRequest(rs[1]) IN
  IF customer.err # NoErr THEN Return(customer.err)
  ELSE IF Len(rs) = 1
  THEN createInvoiceItem(
         <<Lit("currency=usd"),
           Sprintf(<<"customer=", "%s">>, <<Index(customer.m, "id")>>),
           Lit("amount=2000")>>)
  ELSE LET item == performStripeRequest(rs[2]) IN
  IF item.err # NoErr THEN Return(item.err)
  ELSE IF Len(rs) = 2
  THEN invoiceCreated(<<Sprintf(<<"customer=", "%s">>, <<Index(customer.m, "id")>>)>>)
  ELSE LET invoice == performStripeRequest(rs[3]) IN
  IF invoice.err # NoErr THEN Return(invoice.err)
  ELSE IF Len(rs) = 3
  THEN LET rp == buildRequest(MethodPost, <<>>)
           reqURL == Sprintf(<<"/v1/invoices/", "%s", "/finalize">>, <<Index(invoice.m, "id")>>)
       IN performStripeRequestCall(rp.base, reqURL, rp.params)
  ELSE Return(performStripeRequest(rs[4]).err)

InvoicePaymentSucceeded(rs) ==
  IF Len(rs) = 0 THEN customerCreated(<<Sprintf(<<"source=", "%s">>, <<GoString(validToken)>>)>>)
  ELSE LET customer == performStripeRequest(rs[1]) IN
  IF customer.err # NoErr THEN Return(customer.err)
  ELSE IF Len(rs) = 1
  THEN createInvoiceItem(
         <<Lit("currency=usd"),
           Sprintf(<<"customer=", "%s">>, <<Index(customer.m, "id")>>),
           Lit("amount=2000")>>)
  ELSE LET item == performStripeRequest(rs[2]) IN
  IF item.err # NoErr THEN Return(item.err)
  ELSE IF Len(rs) = 2
  THEN invoiceCreated(<<Sprintf(<<"customer=", "%s">>, <<Index(customer.m, "id")>>)>>)
  ELSE LET invoice == performStripeRequest(rs[3]) IN
  IF invoice.err # NoErr THEN Return(invoice.err)
  ELSE IF Len(rs) = 3
  THEN LET rp == buildRequest(MethodPost, <<>>)
           reqURL == Sprintf(<<"/v1/invoices/", "%s", "/pay">>, <<Index(invoice.m, "id")>>)
       IN performStripeRequestCall(rp.base, reqURL, rp.params)
  ELSE Return(performStripeRequest(rs[4]).err)

(* variant of InvoicePaymentFailed whose last call is the finalize call of InvoiceFinalized *)
InvoicePaymentFailedFinalize(rs) ==
  IF Len(rs) = 0 THEN customerCreated(<<Sprintf(<<"source=", "%s">>, <<GoString(chargeFailedToken)>>)>>)
  ELSE LET customer == performStripeRequest(rs[1]) IN
  IF customer.err # NoErr THEN Return(customer.err)
  ELSE IF Len(rs) = 1
  THEN createInvoiceItem(
         <<Lit("currency=usd"),
           Sprintf(<<"customer=", "%s">>, <<Index(customer.m, "id")>>),
           Lit("amount=2000")>>)
  ELSE LET item == performStripeRequest(rs[2]) IN
  IF item.err # NoErr THEN Return(item.err)
  ELSE IF Len(rs) = 2
  THEN invoiceCreated(<<Sprintf(<<"customer=", "%s">>, <<Index(customer.m, "id")>>)>>)
  ELSE LET invoice == performStripeRequest(rs[3]) IN
  IF invoice.err # NoErr THEN Return(invoice.err)
  ELSE IF Len(rs) = 3
  THEN LET rp == buildRequest(MethodPost, <<>>)
           reqURL == Sprintf(<<"/v1/invoices/", "%s", "/finalize">>, <<Index(invoice.m, "id")>>)
       IN performStripeRequestCall(rp.base, reqURL, rp.params)
  ELSE Return(performStripeRequest(rs[4]).err)

InvoicePaymentFailed(rs) ==
  IF Len(rs) = 0 THEN customerCreated(<<Sprintf(<<"source=", "%s">>, <<GoString(chargeFailedToken)>>)>>)
  ELSE LET customer == performStripeRequest(rs[1]) IN
  IF customer.err # NoErr THEN Return(customer.err)
  ELSE IF Len(rs) = 1
  THEN createInvoiceItem(
         <<Lit("currency=usd"),
           Sprintf(<<"customer=", "%s">>, <<Index(customer.m, "id")>>),
           Lit("amount=2000")>>)
  ELSE LET item == performStripeRequest(rs[2]) IN
  IF item.err # NoErr THEN Return(item.err)
  ELSE IF Len(rs) = 2
  THEN invoiceCreated(<<Sprintf(<<"customer=", "%s">>, <<Index(customer.m, "id")>>)>>)
  ELSE LET invoice == performStripeRequest(rs[3]) IN
  IF invoice.err # NoErr THEN Return(invoice.err)
  ELSE IF Len(rs) = 3
  THEN LET rp == buildRequest(MethodPost, <<>>)
           reqURL == Sprintf(<<"/v1/invoices/", "%s", "/pay">>, <<Index(invoice.m, "id")>>)
       IN performStripeRequestCall(rp.base, reqURL, rp.params)
  ELSE Return(performStripeRequest(rs[4]).err)

InvoiceUpdated(rs) ==
  IF Len(rs) = 0 THEN customerCreated(<<>>)
  ELSE LET customer == performStripeRequest(rs[1]) IN
  IF customer.err # NoErr THEN Return(customer.err)
  ELSE IF Len(rs) = 1
  THEN createInvoiceItem(
         <<Lit("currency=usd"),
           Sprintf(<<"customer=", "%s">>, <<Index(customer.m, "id")>>),
           Lit("amount=2000")>>)
  ELSE LET item == performStripeRequest(rs[2]) IN
  IF item.err # NoErr THEN Return(item.err)
  ELSE IF Len(rs) = 2
  THEN invoiceCreated(<<Sprintf(<<"customer=", "%s">>, <<Index(customer.m, "id")>>)>>)
  ELSE LET invoice == performStripeRequest(rs[3]) IN
  IF invoice.err # NoErr THEN Return(invoice.err)
  ELSE IF Len(rs) = 3
  THEN LET rp == buildRequest(MethodPost, <<Lit("metadata[foo]=bar")>>)
           reqURL == Sprintf(<<"/v1/invoices/", "%s">>, <<Index(invoice.m, "id")>>)
       IN performStripeRequestCall(rp.base, reqURL, rp.params)
  ELSE Return(performStripeRequest(rs[4]).err)

----------------------------------------------------------------------------
(* Payment intents and payment methods *)

PaymentIntentCreated(rs) ==
  IF Len(rs) = 0
  THEN paymentIntentCreated(
         <<Lit("amount=2000"), Lit("currency=usd"), Lit("payment_method_types[]=card")>>)
  ELSE Return(performStripeRequest(rs[1]).err)

PaymentIntentSucceeded(rs) ==
  IF Len(rs) = 0 THEN paymentMethodCreated("4242424242424242")
  ELSE LET paymentMethod == performStripeRequest(rs[1]) IN
  IF paymentMethod.err # NoErr THEN Return(paymentMethod.err)
  ELSE LET paymentMethodID ==
             Sprintf(<<"payment_method=", "%s">>, <<Index(paymentMethod.m, "id")>>) IN
  IF Len(rs) = 1
  THEN paymentIntentCreated(
         <<Lit("amount=2000"), Lit("currency=usd"), Lit("payment_method_types[]=card"),
           Lit("confirm=true"), paymentMethodID>>)
  ELSE Return(performStripeRequest(rs[2]).err)

PaymentIntentFailed(rs) ==
  IF Len(rs) = 0 THEN paymentMethodCreated("4000000000000002")
  ELSE LET paymentMethod == performStripeRequest(rs[1]) IN
  IF paymentMethod.err # NoErr THEN Return(paymentMethod.err)
  ELSE IF Len(rs) = 1
  THEN paymentIntentCreated(
         <<Lit("amount=2000"), Lit("currency=usd"), Lit("payment_method_types[]=card"),
           Lit("confirm=true"),
           Sprintf(<<"payment_method=", "%s">>, <<Index(paymentMethod.m, "id")>>)>>)
  ELSE Return(performStripeRequest(rs[2]).err)

(* variant of PaymentMethodAttached with the two ids exchanged in the attach request *)
PaymentMethodAttachedSwapped(rs) ==
  IF Len(rs) = 0 THEN customerCreated(<<>>)
  ELSE LET customer == performStripeRequest(rs[1]) IN
  IF customer.err # NoErr THEN Return(customer.err)
  ELSE IF Len(rs) = 1 THEN paymentMethodCreated("4242424242424242")
  ELSE LET paymentMethod == performStripeRequest(rs[2]) IN
  IF paymentMethod.err # NoErr THEN Return(paymentMethod.err)
  ELSE IF Len(rs) = 2
  THEN LET rp == buildRequest(MethodPost,
                   <<Sprintf(<<"customer=", "%s">>, <<Index(customer.m, "id")>>)>>)
           reqURL == Sprintf(<<"/v1/payment_methods/", "%s", "/attach">>,
                             <<Index(customer.m, "id")>>)
       IN performStripeRequestCall(rp.base, reqURL, rp.params)
  ELSE Return(performStripeRequest(rs[3]).err)

PaymentMethodAttached(rs) ==
  IF Len(rs) = 0 THEN customerCreated(<<>>)
  ELSE LET customer == performStripeRequest(rs[1]) IN
  IF customer.err # NoErr THEN Return(customer.err)
  ELSE IF Len(rs) = 1 THEN paymentMethodCreated("4242424242424242")
  ELSE LET paymentMethod == performStripeRequest(rs[2]) IN
  IF paymentMethod.err # NoErr THEN Return(paymentMethod.err)
  ELSE IF Len(rs) = 2
  THEN LET rp == buildRequest(MethodPost,
                   <<Sprintf(<<"customer=", "%s">>, <<Index(customer.m, "id")>>)>>)
           reqURL == Sprintf(<<"/v1/payment_methods/", "%s", "/attach">>,
                             <<Index(paymentMethod.m, "id")>>)
       IN performStripeRequestCall(rp.base, reqURL, rp.params)
  ELSE Return(performStripeRequest(rs[3]).err)

----------------------------------------------------------------------------
(* WebhookEndpointsList *)

LimitPageSize == 30

ZeroEndpoint == [Application |-> "", EnabledEvents |-> <<>>, URL |-> ""]
ZeroList == [Data |-> <<>>]

(* encoding/json storing a JSON value into a Go string: a type mismatch is *)
(* recorded (bad) and the target keeps its value; null is a no-op.         *)
DecodeString(j) ==
  CASE j.t = "string" -> [val |-> j.v, bad |-> FALSE]
    [] j.t = "null" -> [val |-> "", bad |-> FALSE]
    [] OTHER -> [val |-> "", bad |-> TRUE]

(* ... into a []string: one element per element of the JSON array *)
DecodeStrings(j) ==
  CASE j.t = "array" ->
         [val |-> [n \in 1..Len(j.v) |-> DecodeString(j.v[n]).val],
          bad |-> \E n \in 1..Len(j.v) : DecodeString(j.v[n]).bad]
    [] j.t = "null" -> [val |-> <<>>, bad |-> FALSE]
    [] OTHER -> [val |-> <<>>, bad |-> TRUE]

(* ... into a WebhookEndpoint, by the json tags of its fields *)
DecodeEndpoint(j) ==
  CASE j.t = "object" ->
         LET app == IF "application" \in DOMAIN j.v
                    THEN DecodeString(j.v["application"]) ELSE [val |-> "", bad |-> FALSE]
             evs == IF "enabled_events" \in DOMAIN j.v
                    THEN DecodeStrings(j.v["enabled_events"]) ELSE [val |-> <<>>, bad |-> FALSE]
             url == IF "url" \in DOMAIN j.v
                    THEN DecodeString(j.v["url"]) ELSE [val |-> "", bad |-> FALSE]
         IN [val |-> [Application |-> app.val, EnabledEvents |-> evs.val, URL |-> url.val],
             bad |-> app.bad \/ evs.bad \/ url.bad]
    [] j.t = "null" -> [val |-> ZeroEndpoint, bad |-> FALSE]
    [] OTHER -> [val |-> ZeroEndpoint, bad |-> TRUE]

(* ... into a []WebhookEndpoint *)
DecodeEndpoints(j) ==
  CASE j.t = "array" ->
         [val |-> [n \in 1..Len(j.v) |-> DecodeEndpoint(j.v[n]).val],
          bad |-> \E n \in 1..Len(j.v) : DecodeEndpoint(j.v[n]).bad]
    [] j.t = "null" -> [val |-> <<>>, bad |-> FALSE]
    [] OTHER -> [val |-> <<>>, bad |-> TRUE]

(* json.Unmarshal(resp, &data), data a WebhookEndpointList: the bytes are  *)
(* validated first (a syntax error stores nothing); a value of the wrong   *)
(* type is skipped, decoding goes on, and the mismatch is the error        *)
(* returned; a key that is absent leaves its field as it was.              *)
UnmarshalList(body, data) ==
  CASE body.syn = "empty" -> [data |-> data, err |-> SyntaxError]
    [] body.syn = "invalid" -> [data |-> data, err |-> InvalidCharError]
    [] body.val.t = "null" -> [data |-> data, err |-> NoErr]
    [] body.val.t = "object" ->
         IF "data" \in DOMAIN body.val.v
         THEN LET d == DecodeEndpoints(body.val.v["data"])
              IN [data |-> [Data |-> IF body.val.v["data"].t \in {"array", "null"}
                                     THEN d.val ELSE data.Data],
                  err |-> IF d.bad THEN UnmarshalTypeError ELSE NoErr]
         ELSE [data |-> data, err |-> NoErr]
    [] OTHER -> [data |-> data, err |-> UnmarshalTypeError]

(* data := WebhookEndpointList{Data: make([]WebhookEndpoint, 30)} in place *)
(* of the zero value                                                       *)
WebhookEndpointsListPrealloc(rs) ==
  IF Len(rs) = 0
  THEN Call([Profile |-> ex.Profile, Method |-> MethodGet, SuppressOutput |-> TRUE,
             APIBaseURL |-> ex.APIBaseURL],
            ex.APIKey, Lit("/v1/webhook_endpoints"),
            [data |-> <<Lit("limit=" \o ToString(LimitPageSize))>>, version |-> ex.APIVersion],
            TRUE)
  ELSE ReturnList(UnmarshalList(rs[1].body,
                    [Data |-> [n \in 1..LimitPageSize |-> ZeroEndpoint]]).data)

(* variant of WebhookEndpointsList that issues the request once more when  *)
(* MakeRequest returns an error                                            *)
WebhookEndpointsListRetry(rs) ==
  IF Len(rs) = 0 \/ (Len(rs) = 1 /\ rs[1].err # NoErr)
  THEN Call([Profile |-> ex.Profile, Method |-> MethodGet, SuppressOutput |-> TRUE,
             APIBaseURL |-> ex.APIBaseURL],
            ex.APIKey, Lit("/v1/webhook_endpoints"),
            [data |-> <<Lit("limit=" \o ToString(LimitPageSize))>>, version |-> ex.APIVersion],
            TRUE)
  ELSE ReturnList(UnmarshalList(rs[Len(rs)].body, ZeroList).data)


WebhookEndpointsList(rs) ==
  IF Len(rs) = 0
  THEN LET params == [data |-> <<Lit("limit=" \o ToString(LimitPageSize))>>,
                      version |-> ex.APIVersion]
           base == [Profile |-> ex.Profile,
                    Method |-> MethodGet,
                    SuppressOutput |-> TRUE,
                    APIBaseURL |-> ex.APIBaseURL]
       IN Call(base, ex.APIKey, Lit("/v1/webhook_endpoints"), params, TRUE)
  ELSE LET resp == rs[1].body
           data == UnmarshalList(resp, ZeroList).data
       IN ReturnList(data)

----------------------------------------------------------------------------
(* ResendEvent *)

MinRepeat == 3
MaxRepeat == 255

Upper == {"A","B","C","D","E","F","G","H","I","J","K","L","M",
          "N","O","P","Q","R","S","T","U","V","W","X","Y","Z"}
Lower == {"a","b","c","d","e","f","g","h","i","j","k","l","m",
          "n","o","p","q","r","s","t","u","v","w","x","y","z"}
Digit == {"0","1","2","3","4","5","6","7","8","9"}

pattern == "^evt_[A-Za-z0-9]{" \o ToString(MinRepeat) \o "," \o ToString(MaxRepeat) \o "}$"

(* regexp.MatchString(pattern, id), id the sequence of its characters: the *)
(* pattern compiles, so err is nil; ^ and $ match at the ends of the text  *)
(* only (no multi-line flag).                                              *)
(* variant for the pattern without its closing $ *)
MatchStringUnanchored(id) ==
  [match |-> /\ Len(id) >= 4 + MinRepeat
             /\ SubSeq(id, 1, 4) = <<"e", "v", "t", "_">>
             /\ \A n \in 5..(4 + MinRepeat) : id[n] \in Upper \cup Lower \cup Digit,
   err |-> NoErr]

MatchString(id) ==
  [match |-> /\ Len(id) >= 4
             /\ SubSeq(id, 1, 4) = <<"e", "v", "t", "_">>
             /\ Len(id) - 4 >= MinRepeat
             /\ Len(id) - 4 <= MaxRepeat
             /\ \A n \in 5..Len(id) : id[n] \in Upper \cup Lower \cup Digit,
   err |-> NoErr]

ResendEvent(id, rs) ==
  LET m == MatchString(id) IN
  IF m.err # NoErr THEN Return(m.err)
  ELSE IF ~m.match
  THEN Return(Errorf("errors.errorString",
                     <<"Invalid event-id provided, should be of the form '", "%s", "'">>,
                     <<GoString(pattern)>>))
  ELSE IF Len(rs) = 0
  THEN LET rp == buildRequest(MethodPost, <<>>)
           reqURL == Sprintf(<<"/v1/events/", "%s", "/retry">>, <<GoString(Flat(id))>>)
       IN performStripeRequestCall(rp.base, reqURL, rp.params)
  ELSE Return(performStripeRequest(rs[1]).err)

----------------------------------------------------------------------------
(* The Executor (Base.MakeRequest) and what it may return *)

MaxEndpoints == 2

TransportError == ErrorsNew("TransportError", "dial tcp: connection refused")
AuthError == ErrorsNew("AuthError", "Request failed, status=401")
RemoteAPIError == ErrorsNew("RemoteAPIError", "Request failed, status=402")
ExecutorErrors == {TransportError, AuthError, RemoteAPIError}

IDs == {"id_1", "id_2"}

(* bodies answered to a trigger's call *)
ObjectBodies ==
  {JSONBody(JObject([object |-> JString("thing")]))}
    \cup {JSONBody(JObject([id |-> JString(s), object |-> JString("thing")])) : s \in IDs}
    \cup {JSONBody(JObject([id |-> JNumber("5"), object |-> JString("thing")])),
          JSONBody(JObject([id |-> JNull, object |-> JString("thing")]))}

TriggerBodies ==
  {EmptyBody, InvalidBody, JSONBody(JNull), JSONBody(JArray(<<JNumber("1")>>))}
    \cup ObjectBodies

(* bodies answered to GET /v1/webhook_endpoints *)
Endpoints ==
  {JObject([application |-> JString("app"),
            enabled_events |-> JArray(<<JString("*")>>),
            url |-> JString("https://a.example/hook")]),
   JObject([application |-> JNull,
            enabled_events |-> JArray(<<JString("charge.captured"), JString("charge.failed")>>),
            url |-> JString("https://b.example/hook")])}

MistypedEndpoints ==
  {JObject([application |-> JNumber("5"),
            enabled_events |-> JArray(<<JString("*")>>),
            url |-> JString("https://c.example/hook")]),
   JObject([application |-> JString("app"),
            enabled_events |-> JString("*"),
            url |-> JString("https://d.example/hook")]),
   JNumber("7")}

SeqsUpTo(S, n) == UNION {[1..k -> S] : k \in 0..n}

ListBodies ==
  {JSONBody(JObject([object |-> JString("list"), data |-> JArray(es)])) :
     es \in SeqsUpTo(Endpoints, MaxEndpoints)}
    \cup {JSONBody(JObject([object |-> JString("list"), data |-> JArray(es \o <<m>>)])) :
            es \in SeqsUpTo(Endpoints, MaxEndpoints - 1), m \in MistypedEndpoints}
    \cup {JSONBody(JObject([object |-> JString("list"), data |-> JString("none")])),
          JSONBody(JObject([object |-> JString("list"), data |-> JNull]))}
    \cup TriggerBodies

(* Base.MakeRequest returns the body and a nil error, or no body and an error *)
MakeRequestOutcomes(bodies) ==
  {[body |-> b, err |-> NoErr] : b \in bodies}
    \cup {[body |-> EmptyBody, err |-> e] : e \in ExecutorErrors}

----------------------------------------------------------------------------
(* Event ids given to ResendEvent, as sequences of characters *)

Rep(c, n) == [k \in 1..n |-> c]
evt == <<"e", "v", "t", "_">>

EventIDs ==
  {evt \o <<"A", "b", "C", "1", "2", "3">>,
   <<"b", "a", "d", "-", "i", "d">>,
   <<>>,
   evt,
   evt \o Rep("a", MinRepeat - 1),
   evt \o Rep("a", MinRepeat),
   evt \o Rep("9", MaxRepeat),
   evt \o Rep("Z", MaxRepeat + 1),
   evt \o <<"a", "b", "c", "-">>,
   evt \o <<"a", "b", "c", "\n">>,
   <<"x">> \o evt \o <<"a", "b", "c">>,
   <<"E", "V", "T", "_", "a", "b", "c">>}

----------------------------------------------------------------------------
(* Invocations *)

(* the caller of Spec, and the callers that may run at the same time *)
SingleCaller == {1}
Callers == {1, 2}

Triggers ==
  {"ChargeCaptured", "ChargeDisputed", "ChargeFailed", "ChargeRefunded", "ChargeSucceeded",
   "CheckoutSessionCompleted",
   "CustomerCreated", "CustomerUpdated", "CustomerDeleted",
   "CustomerSourceCreated", "CustomerSourceUpdated",
   "CustomerSubscriptionUpdated", "CustomerSubscriptionDeleted",
   "InvoiceCreated", "InvoiceFinalized", "InvoicePaymentSucceeded",
   "InvoicePaymentFailed", "InvoiceUpdated",
   "PaymentIntentCreated", "PaymentIntentSucceeded", "PaymentIntentFailed",
   "PaymentMethodAttached"}

(* the method op, called with arg, after MakeRequest has returned rs *)
Run(op, arg, rs) ==
  CASE op = "ChargeCaptured" -> ChargeCaptured(rs)
    [] op = "ChargeDisputed" -> ChargeDisputed(rs)
    [] op = "ChargeFailed" -> ChargeFailed(rs)
    [] op = "ChargeRefunded" -> ChargeRefunded(rs)
    [] op = "ChargeSucceeded" -> ChargeSucceeded(rs)
    [] op = "CheckoutSessionCompleted" -> CheckoutSessionCompleted(rs)
    [] op = "CustomerCreated" -> CustomerCreated(rs)
    [] op = "CustomerUpdated" -> CustomerUpdated(rs)
    [] op = "CustomerDeleted" -> CustomerDeleted(rs)
    [] op = "CustomerSourceCreated" -> CustomerSourceCreated(rs)
    [] op = "CustomerSourceUpdated" -> CustomerSourceUpdated(rs)
    [] op = "CustomerSubscriptionUpdated" -> CustomerSubscriptionUpdated(rs)
    [] op = "CustomerSubscriptionDeleted" -> CustomerSubscriptionDeleted(rs)
    [] op = "InvoiceCreated" -> InvoiceCreated(rs)
    [] op = "InvoiceFinalized" -> InvoiceFinalized(rs)
    [] op = "InvoicePaymentSucceeded" -> InvoicePaymentSucceeded(rs)
    [] op = "InvoicePaymentFailed" -> InvoicePaymentFailed(rs)
    [] op = "InvoiceUpdated" -> InvoiceUpdated(rs)
    [] op = "PaymentIntentCreated" -> PaymentIntentCreated(rs)
    [] op = "PaymentIntentSucceeded" -> PaymentIntentSucceeded(rs)
    [] op = "PaymentIntentFailed" -> PaymentIntentFailed(rs)
    [] op = "PaymentMethodAttached" -> PaymentMethodAttached(rs)
    [] op = "WebhookEndpointsList" -> WebhookEndpointsList(rs)
    [] op = "ResendEvent" -> ResendEvent(arg, rs)

Idle ==
  [status |-> "idle", op |-> "none", arg |-> <<>>, rs |-> <<>>, calls |-> <<>>,
   err |-> NoErr, list |-> ZeroList, out |-> <<>>]

(* what the method itself has written to standard output when it is at its *)
(* next MakeRequest call or at its return: InvoicePaymentFailed prints     *)
(* hello before it builds its fourth request                               *)
Stdout(op, arg, rs) ==
  IF /\ op = "InvoicePaymentFailed"
     /\ Len(rs) >= 3
     /\ \A k \in 1..3 : performStripeRequest(rs[k]).err = NoErr
  THEN <<"hello">>
  ELSE <<>>

(* the method runs from where it is to its next MakeRequest call or to its return *)
(* variant of Advance in which the response of a step is kept in a place   *)
(* shared by the invocations: the method reads for step k the response     *)
(* another invocation received at its step k, when there is one            *)
AdvanceSharedResponse(i, op, arg, rs, calls) ==
  LET others(k) == {j \in Callers \ {i} : Len(inv[j].rs) >= k}
      shared == [k \in 1..Len(rs) |->
                   IF others(k) = {} THEN rs[k]
                   ELSE inv[CHOOSE j \in others(k) : TRUE].rs[k]]
      step == Run(op, arg, shared)
  IN inv' = [inv EXCEPT ![i] =
               IF step.kind = "call"
               THEN [status |-> "waiting", op |-> op, arg |-> arg, rs |-> rs,
                     calls |-> Append(calls, step.call), err |-> NoErr, list |-> ZeroList,
                     out |-> Stdout(op, arg, rs)]
               ELSE [status |-> "returned", op |-> op, arg |-> arg, rs |-> rs,
                     calls |-> calls, err |-> step.err, list |-> step.list,
                     out |-> Stdout(op, arg, rs)]]

Advance(i, op, arg, rs, calls) ==
  LET step == Run(op, arg, rs)
  IN inv' = [inv EXCEPT ![i] =
               IF step.kind = "call"
               THEN [status |-> "waiting", op |-> op, arg |-> arg, rs |-> rs,
                     calls |-> Append(calls, step.call), err |-> NoErr, list |-> ZeroList,
                     out |-> Stdout(op, arg, rs)]
               ELSE [status |-> "returned", op |-> op, arg |-> arg, rs |-> rs,
                     calls |-> calls, err |-> step.err, list |-> step.list,
                     out |-> Stdout(op, arg, rs)]]

Init ==
  /\ ex \in Configurations
  /\ inv = [i \in Callers |-> Idle]

InvokeTrigger(i) ==
  /\ inv[i].status = "idle"
  /\ \E op \in Triggers : Advance(i, op, <<>>, <<>>, <<>>)
  /\ UNCHANGED ex

InvokeResendEvent(i) ==
  /\ inv[i].status = "idle"
  /\ \E id \in EventIDs : Advance(i, "ResendEvent", id, <<>>, <<>>)
  /\ UNCHANGED ex

InvokeWebhookEndpointsList(i) ==
  /\ inv[i].status = "idle"
  /\ Advance(i, "WebhookEndpointsList", <<>>, <<>>, <<>>)
  /\ UNCHANGED ex

MakeRequestReturns(i) ==
  /\ inv[i].status = "waiting"
  /\ \E o \in MakeRequestOutcomes(IF inv[i].op = "WebhookEndpointsList"
                                  THEN ListBodies ELSE TriggerBodies) :
       Advance(i, inv[i].op, inv[i].arg, Append(inv[i].rs, o), inv[i].calls)
  /\ UNCHANGED ex

Next ==
  \E i \in SingleCaller :
    \/ InvokeTrigger(i)
    \/ InvokeResendEvent(i)
    \/ InvokeWebhookEndpointsList(i)
    \/ MakeRequestReturns(i)

Spec == Init /\ [][Next]_vars

(* MakeRequest is a blocking call: a caller waiting in it stays there      *)
(* until it returns, and it is assumed to return.                          *)
SpecFair == Spec /\ \A i \in SingleCaller : WF_vars(MakeRequestReturns(i))

----------------------------------------------------------------------------
(* The documented plans: for each trigger the method and the resource of   *)
(* each step, and the dependency edges <<a, b>>: step b's request uses the *)
(* id of step a's response.                                                *)

P(method, resource) == [method |-> method, resource |-> resource]

SubscriptionPlan(last) ==
  <<P("POST", "/v1/customers"), P("POST", "/v1/plans"),
    P("POST", "/v1/subscriptions"), P(last, "/v1/subscriptions/")>>

InvoicePlan ==
  <<P("POST", "/v1/customers"), P("POST", "/v1/invoiceitems"),
    P("POST", "/v1/invoices"), P("POST", "/v1/invoices/")>>

Plan(op) ==
  CASE op \in {"ChargeSucceeded", "ChargeFailed", "ChargeDisputed"} ->
         <<P("POST", "/v1/charges")>>
    [] op = "CustomerCreated" -> <<P("POST", "/v1/customers")>>
    [] op = "PaymentIntentCreated" -> <<P("POST", "/v1/payment_intents")>>
    [] op = "ChargeCaptured" -> <<P("POST", "/v1/charges"), P("POST", "/v1/charges/")>>
    [] op = "ChargeRefunded" -> <<P("POST", "/v1/charges"), P("POST", "/v1/refunds")>>
    [] op = "CustomerUpdated" -> <<P("POST", "/v1/customers"), P("POST", "/v1/customers/")>>
    [] op = "CustomerDeleted" -> <<P("POST", "/v1/customers"), P("DELETE", "/v1/customers/")>>
    [] op = "CustomerSourceCreated" ->
         <<P("POST", "/v1/customers"), P("POST", "/v1/customers/")>>
    [] op \in {"PaymentIntentSucceeded", "PaymentIntentFailed"} ->
         <<P("POST", "/v1/payment_methods"), P("POST", "/v1/payment_intents")>>
    [] op = "CustomerSourceUpdated" ->
         <<P("POST", "/v1/customers"), P("POST", "/v1/customers/"),
           P("POST", "/v1/customers/")>>
    [] op = "InvoiceCreated" -> SubSeq(InvoicePlan, 1, 3)
    [] op = "PaymentMethodAttached" ->
         <<P("POST", "/v1/customers"), P("POST", "/v1/payment_methods"),
           P("POST", "/v1/payment_methods/")>>
    [] op = "CheckoutSessionCompleted" ->
         <<P("POST", "/v1/checkout/sessions"), P("GET", "/v1/payment_pages"),
           P("POST", "/v1/payment_methods"), P("POST", "/v1/payment_pages/")>>
    [] op = "CustomerSubscriptionUpdated" -> SubscriptionPlan("POST")
    [] op = "CustomerSubscriptionDeleted" -> SubscriptionPlan("DELETE")
    [] op \in {"InvoiceFinalized", "InvoicePaymentSucceeded",
               "InvoicePaymentFailed", "InvoiceUpdated"} -> InvoicePlan

PlanLen(op) == Len(Plan(op))

Deps(op) ==
  CASE op \in {"ChargeCaptured", "ChargeRefunded", "CustomerUpdated", "CustomerDeleted",
               "CustomerSourceCreated", "PaymentIntentSucceeded", "PaymentIntentFailed"} ->
         {<<1, 2>>}
    [] op = "CustomerSourceUpdated" -> {<<1, 2>>, <<1, 3>>, <<2, 3>>}
    [] op = "InvoiceCreated" -> {<<1, 2>>, <<1, 3>>}
    [] op = "PaymentMethodAttached" -> {<<1, 3>>, <<2, 3>>}
    [] op = "CheckoutSessionCompleted" -> {<<1, 2>>, <<2, 4>>, <<3, 4>>}
    [] op \in {"CustomerSubscriptionUpdated", "CustomerSubscriptionDeleted"} ->
         {<<1, 3>>, <<2, 3>>, <<3, 4>>}
    [] op \in {"InvoiceFinalized", "InvoicePaymentSucceeded",
               "InvoicePaymentFailed", "InvoiceUpdated"} ->
         {<<1, 2>>, <<1, 3>>, <<3, 4>>}
    [] OTHER -> {}

(* Outcomes of one step, as the caller of MakeRequest sees them *)
ExecutorFailed(o) == o.err # NoErr
Decodes(o) == o.err = NoErr /\ o.body.syn = "json" /\ o.body.val.t \in {"object", "null"}
DecodesWithoutID(o) ==
  /\ Decodes(o)
  /\ o.body.val.t = "object" => "id" \notin DOMAIN o.body.val.v
HasStringID(o) ==
  /\ o.err = NoErr /\ o.body.syn = "json" /\ o.body.val.t = "object"
  /\ "id" \in DOMAIN o.body.val.v
  /\ o.body.val.v["id"].t = "string"
IDOf(o) == o.body.val.v["id"].v

Min(a, b) == IF a < b THEN a ELSE b

(* what a call carries *)
Endpoint(c) == Flat(c.endpoint)
Params(c) == {Flat(c.params.data[n]) : n \in 1..Len(c.params.data)}
Pieces(c) ==
  {c.endpoint[n] : n \in 1..Len(c.endpoint)}
    \cup UNION {{c.params.data[n][k] : k \in 1..Len(c.params.data[n])} :
                  n \in 1..Len(c.params.data)}
FollowsPlan(c, p) == c.base.Method = p.method /\ c.endpoint[1] = p.resource

----------------------------------------------------------------------------
(* Two callers using the same Examples value at the same time: the steps   *)
(* of their invocations interleave in any order.                           *)
ConcurrentTriggers ==
  {"ChargeCaptured", "ChargeRefunded", "CheckoutSessionCompleted",
   "CustomerSubscriptionUpdated", "PaymentMethodAttached"}

ConcurrentOutcomes ==
  {[body |-> JSONBody(JObject([id |-> JString(s), object |-> JString("thing")])),
    err |-> NoErr] : s \in IDs}
    \cup {[body |-> EmptyBody, err |-> TransportError]}

InvokeConcurrently(i) ==
  /\ inv[i].status = "idle"
  /\ \E op \in ConcurrentTriggers : Advance(i, op, <<>>, <<>>, <<>>)
  /\ UNCHANGED ex

MakeRequestReturnsConcurrently(i) ==
  /\ inv[i].status = "waiting"
  /\ \E o \in ConcurrentOutcomes :
       Advance(i, inv[i].op, inv[i].arg, Append(inv[i].rs, o), inv[i].calls)
  /\ UNCHANGED ex

NextConcurrent ==
  \E i \in Callers :
    \/ InvokeConcurrently(i)
    \/ MakeRequestReturnsConcurrently(i)

SpecConcurrent == Init /\ [][NextConcurrent]_vars

----------------------------------------------------------------------------

(* C1: in a trigger of two or more steps, once MakeRequest has returned an *)
(* error at step k the trigger has returned exactly that error and call k  *)
(* is the last call it issued: no later step, no cleanup call.             *)
C1_ShortCircuit ==
  \A i \in Callers :
    (inv[i].op \in Triggers /\ PlanLen(inv[i].op) >= 2) =>
      \A k \in 1..Len(inv[i].rs) :
        ExecutorFailed(inv[i].rs[k]) =>
          /\ inv[i].status = "returned"
          /\ inv[i].err = inv[i].rs[k].err
          /\ Len(inv[i].calls) = k
          /\ Len(inv[i].rs) = k

C1_Witness ==
  \E i \in Callers :
    /\ inv[i].op = "CustomerSubscriptionUpdated"
    /\ Len(inv[i].rs) = 2
    /\ ExecutorFailed(inv[i].rs[2])
    /\ inv[i].status = "returned"

(* C2: a step that uses the id of an earlier response is never issued when *)
(* that response decoded but has no key id; the trigger fails instead.     *)
C2_NoSilentSubstitution ==
  \A i \in Callers :
    inv[i].op \in Triggers =>
      \A d \in Deps(inv[i].op) :
        (d[1] <= Len(inv[i].rs) /\ DecodesWithoutID(inv[i].rs[d[1]])) =>
          /\ Len(inv[i].calls) < d[2]
          /\ inv[i].status = "returned" => inv[i].err # NoErr

(* the state the code reaches on the failing input of C2 *)
C2_FailingInput ==
  \E i \in Callers :
    /\ inv[i].op = "ChargeCaptured"
    /\ Len(inv[i].rs) = 1
    /\ DecodesWithoutID(inv[i].rs[1])
    /\ Len(inv[i].calls) = 2
    /\ Endpoint(inv[i].calls[2]) = "/v1/charges/%!s(<nil>)/capture"

(* C3: CheckoutSessionCompleted, as long as every step succeeds, issues    *)
(* POST /v1/checkout/sessions, GET /v1/payment_pages with session_id=<id   *)
(* of response 1>, POST /v1/payment_methods, POST /v1/payment_pages/<id of *)
(* response 2>/confirm with payment_method=<id of response 3>, one call    *)
(* per step and in this order, and after the fourth returns nil.           *)
C3_CheckoutCalls ==
  \A i \in Callers :
    LET rs == inv[i].rs
        calls == inv[i].calls
    IN (/\ inv[i].op = "CheckoutSessionCompleted"
        /\ \A k \in 1..Min(Len(rs), 3) : HasStringID(rs[k])
        /\ Len(rs) >= 4 => Decodes(rs[4])) =>
         /\ Len(calls) = Min(Len(rs) + 1, 4)
         /\ inv[i].status = "returned" <=> Len(rs) = 4
         /\ inv[i].status = "returned" => inv[i].err = NoErr
         /\ calls[1].base.Method = "POST"
         /\ Endpoint(calls[1]) = "/v1/checkout/sessions"
         /\ Len(calls) >= 2 =>
              /\ calls[2].base.Method = "GET"
              /\ Endpoint(calls[2]) = "/v1/payment_pages"
              /\ ("session_id=" \o IDOf(rs[1])) \in Params(calls[2])
         /\ Len(calls) >= 3 =>
              /\ calls[3].base.Method = "POST"
              /\ Endpoint(calls[3]) = "/v1/payment_methods"
         /\ Len(calls) >= 4 =>
              /\ calls[4].base.Method = "POST"
              /\ Endpoint(calls[4]) = "/v1/payment_pages/" \o IDOf(rs[2]) \o "/confirm"
              /\ ("payment_method=" \o IDOf(rs[3])) \in Params(calls[4])

C3_Witness ==
  \E i \in Callers :
    /\ inv[i].op = "CheckoutSessionCompleted"
    /\ inv[i].status = "returned"
    /\ Len(inv[i].rs) = 4
    /\ \A k \in 1..3 : HasStringID(inv[i].rs[k])
    /\ IDOf(inv[i].rs[1]) # IDOf(inv[i].rs[2])
    /\ IDOf(inv[i].rs[2]) # IDOf(inv[i].rs[3])
    /\ Decodes(inv[i].rs[4])
    /\ inv[i].err = NoErr

(* C4: ResendEvent(id) with an id that is not evt_ followed by 3 to 255    *)
(* letters or digits issues no call and returns an error whose message     *)
(* contains the pattern; with such an id it issues one call, POST          *)
(* /v1/events/<id>/retry, and returns the error of MakeRequest unchanged,  *)
(* or nil when the call succeeded and its body decoded.                    *)
WellFormedEventIDs ==
  {<<"e", "v", "t", "_", "A", "b", "C", "1", "2", "3">>,
   <<"e", "v", "t", "_">> \o [k \in 1..3 |-> "a"],
   <<"e", "v", "t", "_">> \o [k \in 1..255 |-> "9"]}

C4_ResendEvent ==
  \A i \in Callers :
    inv[i].op = "ResendEvent" =>
      IF inv[i].arg \in WellFormedEventIDs
      THEN /\ Len(inv[i].calls) = 1
           /\ inv[i].calls[1].base.Method = "POST"
           /\ Endpoint(inv[i].calls[1]) = "/v1/events/" \o Flat(inv[i].arg) \o "/retry"
           /\ inv[i].status = "returned" <=> Len(inv[i].rs) = 1
           /\ inv[i].status = "returned" =>
                /\ ExecutorFailed(inv[i].rs[1]) => inv[i].err = inv[i].rs[1].err
                /\ Decodes(inv[i].rs[1]) => inv[i].err = NoErr
      ELSE /\ Len(inv[i].calls) = 0
           /\ inv[i].status = "returned"
           /\ inv[i].err # NoErr
           /\ \E n \in 1..Len(inv[i].err.msg) :
                inv[i].err.msg[n] = "^evt_[A-Za-z0-9]{3,255}$"

C4_Witness ==
  \E i \in Callers :
    /\ inv[i].op = "ResendEvent"
    /\ Len(inv[i].arg) = 4 + 256
    /\ inv[i].status = "returned"
    /\ Len(inv[i].calls) = 0

(* the accepting branch of C4 at the upper length bound *)
C4_Accepted ==
  \E i \in Callers :
    /\ inv[i].op = "ResendEvent"
    /\ Len(inv[i].arg) = 4 + 255
    /\ inv[i].status = "returned"
    /\ ExecutorFailed(inv[i].rs[1])

(* C5: a trigger whose responses so far all carry a string id has issued   *)
(* one call per step of its plan, each with the plan's method and          *)
(* resource, each carrying exactly the ids of the responses it depends on; *)
(* it returns after the last step of the plan, and returns nil.            *)
C5_PlanFollowed ==
  \A i \in Callers :
    LET op == inv[i].op
        rs == inv[i].rs
        calls == inv[i].calls
    IN (op \in Triggers /\ \A k \in 1..Len(rs) : HasStringID(rs[k])) =>
         /\ Len(calls) = Min(Len(rs) + 1, PlanLen(op))
         /\ inv[i].status = "returned" <=> Len(rs) = PlanLen(op)
         /\ inv[i].status = "returned" => inv[i].err = NoErr
         /\ \A b \in 1..Len(calls) :
              /\ FollowsPlan(calls[b], Plan(op)[b])
              /\ Pieces(calls[b]) \cap IDs = {IDOf(rs[d[1]]) : d \in {e \in Deps(op) : e[2] = b}}
         /\ (op = "ChargeCaptured" /\ Len(calls) = 2) =>
              Endpoint(calls[2]) = "/v1/charges/" \o IDOf(rs[1]) \o "/capture"

C5_Witness ==
  \E i \in Callers :
    /\ inv[i].op = "CustomerSourceUpdated"
    /\ inv[i].status = "returned"
    /\ Len(inv[i].rs) = 3
    /\ \A k \in 1..3 : HasStringID(inv[i].rs[k])
    /\ IDOf(inv[i].rs[1]) # IDOf(inv[i].rs[2])
    /\ inv[i].err = NoErr

(* C6: when MakeRequest fails, WebhookEndpointsList returns a list with no *)
(* entries and no error reaches the caller.                                *)
C6_ListSwallowsExecutorError ==
  \A i \in Callers :
    (/\ inv[i].op = "WebhookEndpointsList"
     /\ Len(inv[i].rs) = 1
     /\ ExecutorFailed(inv[i].rs[1])) =>
       /\ inv[i].status = "returned"
       /\ Len(inv[i].list.Data) = 0
       /\ inv[i].err = NoErr

C6_Witness ==
  \E i \in Callers :
    /\ inv[i].op = "WebhookEndpointsList"
    /\ inv[i].status = "returned"
    /\ ExecutorFailed(inv[i].rs[1])

(* C7: whenever decoding the body of the listing reports an error, the     *)
(* list WebhookEndpointsList returns has no entries.                       *)
C7_FailedDecodeGivesEmptyList ==
  \A i \in Callers :
    (/\ inv[i].op = "WebhookEndpointsList"
     /\ inv[i].status = "returned"
     /\ ~ExecutorFailed(inv[i].rs[1])
     /\ UnmarshalList(inv[i].rs[1].body, ZeroList).err # NoErr) =>
       Len(inv[i].list.Data) = 0

(* C8: a trigger that has returned nil issued every step of its plan once, *)
(* in plan order, and its last step's MakeRequest call and decode both     *)
(* succeeded.                                                              *)
C8_SuccessMeansFinalStepSucceeded ==
  \A i \in Callers :
    LET op == inv[i].op
        rs == inv[i].rs
        calls == inv[i].calls
    IN (op \in Triggers /\ inv[i].status = "returned" /\ inv[i].err = NoErr) =>
         /\ Len(calls) = PlanLen(op)
         /\ Len(rs) = PlanLen(op)
         /\ \A b \in 1..Len(calls) : FollowsPlan(calls[b], Plan(op)[b])
         /\ Decodes(rs[Len(rs)])

C8_Witness ==
  \E i \in Callers :
    /\ inv[i].op = "InvoiceCreated"
    /\ inv[i].status = "returned"
    /\ inv[i].err = NoErr
    /\ Len(inv[i].rs) = 3

(* C9: when MakeRequest succeeds at step k with an empty body or a body    *)
(* that is not JSON, the decode gives a nil map and an error, the trigger  *)
(* has returned that error, and call k is the last call it issued.         *)
C9_DecodeFailureAborts ==
  \A i \in Callers :
    inv[i].op \in Triggers =>
      \A k \in 1..Len(inv[i].rs) :
        (~ExecutorFailed(inv[i].rs[k]) /\ inv[i].rs[k].body.syn \in {"empty", "invalid"}) =>
          /\ parseResponse(inv[i].rs[k].body).m = NilMap
          /\ parseResponse(inv[i].rs[k].body).err.kind = "json.SyntaxError"
          /\ inv[i].status = "returned"
          /\ inv[i].err = parseResponse(inv[i].rs[k].body).err
          /\ Len(inv[i].calls) = k
          /\ Len(inv[i].rs) = k

C9_Witness ==
  \E i \in Callers :
    /\ inv[i].op = "InvoiceUpdated"
    /\ Len(inv[i].rs) = 3
    /\ ~ExecutorFailed(inv[i].rs[3])
    /\ inv[i].rs[3].body.syn = "invalid"
    /\ inv[i].status = "returned"

(* C10: in CheckoutSessionCompleted a decoded response without id at step  *)
(* 1, 2 or 3 makes the trigger return "Unable to retrieve CheckoutSession  *)
(* ID", "... PaymentPage ID" or "... PaymentMethod ID" with no call after  *)
(* that step.                                                              *)
MissingIDMessage(k) ==
  CASE k = 1 -> "Unable to retrieve CheckoutSession ID"
    [] k = 2 -> "Unable to retrieve PaymentPage ID"
    [] k = 3 -> "Unable to retrieve PaymentMethod ID"

C10_CheckoutMissingID ==
  \A i \in Callers :
    inv[i].op = "CheckoutSessionCompleted" =>
      \A k \in 1..Min(Len(inv[i].rs), 3) :
        DecodesWithoutID(inv[i].rs[k]) =>
          /\ inv[i].status = "returned"
          /\ Flat(inv[i].err.msg) = MissingIDMessage(k)
          /\ Len(inv[i].calls) = k
          /\ Len(inv[i].rs) = k

C10_Witness ==
  \E i \in Callers :
    /\ inv[i].op = "CheckoutSessionCompleted"
    /\ Len(inv[i].rs) = 3
    /\ DecodesWithoutID(inv[i].rs[3])
    /\ inv[i].status = "returned"


(* C11: in one invocation of a trigger or of ResendEvent the calls issued  *)
(* are the steps of the plan, each at most once and in order, so there are *)
(* never more calls than steps; at most one call is not yet answered; and  *)
(* a step that failed (MakeRequest error or undecodable body) is the last  *)
(* call of the invocation.                                                 *)
StepsOf(op) == IF op \in {"ResendEvent", "WebhookEndpointsList"} THEN 1 ELSE PlanLen(op)
StepFailed(o) == ExecutorFailed(o) \/ ~Decodes(o)

C11_NoRetries ==
  \A i \in Callers :
    LET op == inv[i].op
        rs == inv[i].rs
        calls == inv[i].calls
    IN op \in Triggers \cup {"ResendEvent"} =>
         /\ Len(calls) <= StepsOf(op)
         /\ Len(calls) <= Len(rs) + 1
         /\ Len(rs) <= Len(calls)
         /\ op \in Triggers => \A b \in 1..Len(calls) : FollowsPlan(calls[b], Plan(op)[b])
         /\ \A k \in 1..Len(rs) : StepFailed(rs[k]) => (Len(calls) = k /\ Len(rs) = k)

C11_Witness ==
  \E i \in Callers :
    /\ inv[i].op = "InvoiceFinalized"
    /\ Len(inv[i].rs) = 4
    /\ ExecutorFailed(inv[i].rs[4])
    /\ inv[i].status = "returned"
    /\ Len(inv[i].calls) = 4


(* C12: with two invocations interleaved on the same Examples value, each  *)
(* has issued exactly the calls it issues alone on its own responses, and  *)
(* every response id in its requests comes from its own responses.         *)
CallsAlone(op, arg, rs) ==
  LET n == Len(rs) + (IF Run(op, arg, rs).kind = "call" THEN 1 ELSE 0)
  IN [b \in 1..n |-> Run(op, arg, SubSeq(rs, 1, b - 1)).call]

OwnIDs(i) == {IDOf(inv[i].rs[k]) : k \in {n \in 1..Len(inv[i].rs) : HasStringID(inv[i].rs[n])}}

C13_OutputSuppressed ==
  \A i \in Callers :
    \A b \in 1..Len(inv[i].calls) :
      /\ inv[i].calls[b].base.SuppressOutput = TRUE
      /\ inv[i].calls[b].flag = TRUE

C13_Witness ==
  \E i \in Callers :
    /\ inv[i].op = "CheckoutSessionCompleted"
    /\ Len(inv[i].calls) = 4
    /\ inv[i].calls[2].base.Method = "GET"
    /\ inv[i].calls[4].base.SuppressOutput

(* C14: no step of any invocation changes Profile, APIBaseURL, APIVersion  *)
(* or APIKey of the Examples value, and every request built carries the    *)
(* APIVersion and the APIBaseURL (and is made with the Profile and APIKey) *)
(* the Examples value was constructed with.                                *)
CarriesConfiguration(c) ==
  /\ c.params.version = ex.APIVersion
  /\ c.base.APIBaseURL = ex.APIBaseURL
  /\ c.base.Profile = ex.Profile
  /\ c.apiKey = ex.APIKey

C14_ConfigurationReadOnly ==
  /\ [][ex' = ex]_vars
  /\ [](\A i \in Callers : \A b \in 1..Len(inv[i].calls) : CarriesConfiguration(inv[i].calls[b]))

C14_Witness ==
  \E i \in Callers :
    /\ ex.APIVersion = "2019-03-14"
    /\ inv[i].op = "InvoiceUpdated"
    /\ inv[i].status = "returned"
    /\ Len(inv[i].calls) = 4
    /\ inv[i].calls[4].params.version = "2019-03-14"


(* C15: on the same responses InvoicePaymentSucceeded and                  *)
(* InvoicePaymentFailed issue the same number of calls, with the same      *)
(* method, endpoint and parameters at every step except the parameter of   *)
(* the first call, source=tok_visa for the one and                         *)
(* source=tok_chargeCustomerFail for the other, and return the same result.*)
PaymentTwin(op) ==
  IF op = "InvoicePaymentSucceeded" THEN "InvoicePaymentFailed" ELSE "InvoicePaymentSucceeded"
PaymentToken(op) ==
  IF op = "InvoicePaymentSucceeded" THEN "tok_visa" ELSE "tok_chargeCustomerFail"
ParamList(c) == [n \in 1..Len(c.params.data) |-> Flat(c.params.data[n])]

C15_PaymentTwins ==
  \A i \in Callers :
    inv[i].op \in {"InvoicePaymentSucceeded", "InvoicePaymentFailed"} =>
      LET mine == inv[i].calls
          twin == CallsAlone(PaymentTwin(inv[i].op), <<>>, inv[i].rs)
          end == Run(PaymentTwin(inv[i].op), <<>>, inv[i].rs)
      IN /\ Len(mine) = Len(twin)
         /\ \A b \in 1..Len(mine) :
              /\ mine[b].base.Method = twin[b].base.Method
              /\ Endpoint(mine[b]) = Endpoint(twin[b])
              /\ b > 1 => ParamList(mine[b]) = ParamList(twin[b])
         /\ ParamList(mine[1]) = <<"source=" \o PaymentToken(inv[i].op)>>
         /\ ParamList(twin[1]) = <<"source=" \o PaymentToken(PaymentTwin(inv[i].op))>>
         /\ inv[i].status = "returned" <=> end.kind = "return"
         /\ inv[i].status = "returned" => inv[i].err = end.err

C15_Witness ==
  \E i \in Callers :
    /\ inv[i].op = "InvoicePaymentFailed"
    /\ inv[i].status = "returned"
    /\ Len(inv[i].calls) = 4
    /\ inv[i].err = NoErr
    /\ inv[i].out = <<"hello">>


(* C16: within one invocation of a trigger at most one call is             *)
(* outstanding, a step adds at most one call, and the request of step b+1  *)
(* is issued only when the response of step b has been received and has    *)
(* decoded.                                                                *)
Outstanding(i) == Len(inv[i].calls) - Len(inv[i].rs)

C16_Sequential ==
  /\ [](\A i \in Callers :
          inv[i].op \in Triggers =>
            /\ Outstanding(i) \in {0, 1}
            /\ Outstanding(i) = 1 <=> inv[i].status = "waiting"
            /\ \A b \in 2..Len(inv[i].calls) :
                 /\ b - 1 <= Len(inv[i].rs)
                 /\ ~StepFailed(inv[i].rs[b - 1]))
  /\ [][\A i \in Callers :
          (inv[i].op \in Triggers /\ Len(inv'[i].calls) # Len(inv[i].calls)) =>
            /\ Len(inv'[i].calls) = Len(inv[i].calls) + 1
            /\ Len(inv'[i].rs) = Len(inv[i].rs) + 1
            /\ Outstanding(i) = 1]_vars

C16_Witness ==
  \E i \in Callers :
    /\ inv[i].op = "CustomerSubscriptionDeleted"
    /\ inv[i].status = "waiting"
    /\ Len(inv[i].calls) = 4
    /\ Len(inv[i].rs) = 3

(* C17: CustomerSubscriptionUpdated and CustomerSubscriptionDeleted issue  *)
(* POST /v1/customers with source=tok_visa, POST /v1/plans, POST           *)
(* /v1/subscriptions with items[0][plan]=<plan id> and customer=<customer  *)
(* id>, then POST with metadata[foo]=bar, respectively DELETE, on          *)
(* /v1/subscriptions/<subscription id>; the third call only after the      *)
(* first two steps succeeded and the fourth only after the third did.      *)
C17_SubscriptionChain ==
  \A i \in Callers :
    LET op == inv[i].op
        rs == inv[i].rs
        calls == inv[i].calls
    IN op \in {"CustomerSubscriptionUpdated", "CustomerSubscriptionDeleted"} =>
         /\ Len(calls) <= 4
         /\ calls[1].base.Method = "POST"
         /\ Endpoint(calls[1]) = "/v1/customers"
         /\ ParamList(calls[1]) = <<"source=tok_visa">>
         /\ Len(calls) >= 2 =>
              /\ calls[2].base.Method = "POST"
              /\ Endpoint(calls[2]) = "/v1/plans"
         /\ Len(calls) >= 3 =>
              /\ ~StepFailed(rs[1]) /\ ~StepFailed(rs[2])
              /\ calls[3].base.Method = "POST"
              /\ Endpoint(calls[3]) = "/v1/subscriptions"
              /\ (HasStringID(rs[1]) /\ HasStringID(rs[2])) =>
                   ParamList(calls[3]) = <<"items[0][plan]=" \o IDOf(rs[2]),
                                           "customer=" \o IDOf(rs[1])>>
         /\ Len(calls) >= 4 =>
              /\ ~StepFailed(rs[3])
              /\ calls[4].base.Method = (IF op = "CustomerSubscriptionUpdated"
                                         THEN "POST" ELSE "DELETE")
              /\ ParamList(calls[4]) = (IF op = "CustomerSubscriptionUpdated"
                                        THEN <<"metadata[foo]=bar">> ELSE <<>>)
              /\ HasStringID(rs[3]) =>
                   Endpoint(calls[4]) = "/v1/subscriptions/" \o IDOf(rs[3])

C17_Witness ==
  \E i \in Callers :
    /\ inv[i].op = "CustomerSubscriptionDeleted"
    /\ inv[i].status = "returned"
    /\ Len(inv[i].calls) = 4
    /\ \A k \in 1..3 : HasStringID(inv[i].rs[k])
    /\ IDOf(inv[i].rs[1]) # IDOf(inv[i].rs[2])
    /\ IDOf(inv[i].rs[3]) = IDOf(inv[i].rs[1])
    /\ inv[i].err = NoErr

(* C18: PaymentMethodAttached issues POST /v1/customers, then POST         *)
(* /v1/payment_methods, then POST /v1/payment_methods/<payment method      *)
(* id>/attach with customer=<customer id>, the attach call only when both  *)
(* creations succeeded; a failed customer creation is the only call, and   *)
(* after a failed payment-method creation there is no third call and no    *)
(* call on the customer.                                                   *)
C18_AttachChain ==
  \A i \in Callers :
    LET rs == inv[i].rs
        calls == inv[i].calls
    IN inv[i].op = "PaymentMethodAttached" =>
         /\ Len(calls) <= 3
         /\ calls[1].base.Method = "POST"
         /\ Endpoint(calls[1]) = "/v1/customers"
         /\ (Len(rs) >= 1 /\ StepFailed(rs[1])) => Len(calls) = 1
         /\ Len(calls) >= 2 =>
              /\ ~StepFailed(rs[1])
              /\ calls[2].base.Method = "POST"
              /\ Endpoint(calls[2]) = "/v1/payment_methods"
         /\ (Len(rs) >= 2 /\ StepFailed(rs[2])) =>
              /\ Len(calls) = 2
              /\ \A b \in 2..Len(calls) :
                   /\ calls[b].endpoint[1] \notin {"/v1/customers", "/v1/customers/"}
                   /\ HasStringID(rs[1]) => IDOf(rs[1]) \notin Pieces(calls[b])
         /\ Len(calls) >= 3 =>
              /\ ~StepFailed(rs[1]) /\ ~StepFailed(rs[2])
              /\ calls[3].base.Method = "POST"
              /\ (HasStringID(rs[1]) /\ HasStringID(rs[2])) =>
                   /\ Endpoint(calls[3]) = "/v1/payment_methods/" \o IDOf(rs[2]) \o "/attach"
                   /\ ParamList(calls[3]) = <<"customer=" \o IDOf(rs[1])>>

C18_Witness ==
  \E i \in Callers :
    /\ inv[i].op = "PaymentMethodAttached"
    /\ inv[i].status = "returned"
    /\ Len(inv[i].calls) = 3
    /\ HasStringID(inv[i].rs[1])
    /\ HasStringID(inv[i].rs[2])
    /\ IDOf(inv[i].rs[1]) # IDOf(inv[i].rs[2])


(* C19: provided every MakeRequest call returns, every invocation of a     *)
(* trigger, of ResendEvent and of WebhookEndpointsList returns to its      *)
(* caller, and it never issues more calls than its plan has steps, which   *)
(* is at most four.                                                        *)
C19_Terminates ==
  /\ [](\A i \in Callers :
          inv[i].status # "idle" =>
            /\ Len(inv[i].calls) <= StepsOf(inv[i].op)
            /\ StepsOf(inv[i].op) <= 4)
  /\ \A i \in Callers :
       (inv[i].status # "idle") ~> (inv[i].status = "returned")

C19_Witness ==
  \E i \in Callers :
    /\ inv[i].op = "CheckoutSessionCompleted"
    /\ inv[i].status = "returned"
    /\ Len(inv[i].calls) = 4
    /\ Len(inv[i].rs) = 4
    /\ StepFailed(inv[i].rs[4])

====
